---------------------------- MODULE Spec2Model ----------------------------
(* Perceiver IO (perceiver/model.py): the encoder's weight-sharing loop,  *)
(* the decoder's latent-shape check, BERT-style text masking and the MLM  *)
(* and IO compositions.  Tensors are modelled by their shape and, for     *)
(* token tensors and boolean masks, by their elements (a sequence of rows).*)
EXTENDS Integers, Sequences, FiniteSets, TLC

(* ---------------------------- bounds ---------------------------------- *)
MaxElems == 2      \* a token tensor (B, l) has at most B * l = MaxElems elements
MaxLayers == 3     \* num_layers ranges over 1..MaxLayers
MaxLatent == 2     \* latent shapes (N, C_latent) range over (1..MaxLatent)^2
MaxK == 2          \* output-query length K ranges over 1..MaxK
VocabSize == 4     \* vocab_size given to TextMasking
MaxNoise == 1      \* dropout draws range over 0..MaxNoise
MaxDropout == 1    \* dropout rates range over 0..MaxDropout (in tenths)
InputChannels == 3 \* num_input_channels of the input adapter
OutputChannels == 2 \* C_output of the output adapter's output_shape

(* ------------------------ program constants --------------------------- *)
IgnoreIndex == -100    \* labels[~is_selected] = -100
MaskPNum == 15         \* mask_p = 0.15 = MaskPNum / MaskPDen
MaskPDen == 100
ReplaceNum == 9        \* 0.9 = ReplaceNum / ReplaceDen
ReplaceDen == 10
RandomNum == 1         \* 1 / 9 = RandomNum / RandomDen
RandomDen == 9
NumSpecialTokens == 3  \* len(SPECIAL_TOKENS): [PAD], [UNK], [MASK]
UnkTokenId == 1
MaskTokenId == 2
NoLayer == 0           \* the attribute layer_n does not exist

(* --------------------------- tensors ---------------------------------- *)
\* A token tensor or mask of shape (B, l): a sequence of B rows of length l.
Rows(x) == 1..Len(x)
Cols(x) == IF Len(x) = 0 THEN {} ELSE 1..Len(x[1])
Positions(x) == Rows(x) \X Cols(x)
ShapeOf(x) == <<Len(x), IF Len(x) = 0 THEN 0 ELSE Len(x[1])>>
TensorsOver(shape, S) == [1..shape[1] -> [1..shape[2] -> S]]
TokenShapes == {s \in (1..MaxElems) \X (1..MaxElems) : s[1] * s[2] <= MaxElems}

\* torch.rand draws a value in [0, 1); a draw is modelled as k / den with
\* k in 0..den-1, so that "draw < num / den" is exactly "k < num".
Below(k, num) == k < num

(* -------------------------- TextMasking ------------------------------- *)
TextMaskingInit(vocab_size, unk_token_id, mask_token_id, num_special_tokens, mask_p) ==
    [vocab_size |-> vocab_size, unk_token_id |-> unk_token_id,
     mask_token_id |-> mask_token_id, num_special_tokens |-> num_special_tokens,
     mask_p |-> mask_p]

\* is_special = x == self.unk_token_id; is_special |= pad_mask
IsSpecialUnkOnly(tm, tok, pad) == tok = tm.unk_token_id
IsSpecial(tm, tok, pad) == tok = tm.unk_token_id \/ pad

\* is_selected = rand < self.mask_p; is_selected &= is_input
IsSelected(tm, r1, is_input) == Below(r1, tm.mask_p) /\ is_input

\* is_selected_1 = is_selected & (rand < 0.9)
IsSelected1(is_selected, r2) == is_selected /\ Below(r2, ReplaceNum)

\* is_selected_2 = is_selected_1 & (rand < 1 / 9)
IsSelected2NotNested(is_selected, is_selected_1, r3) == is_selected /\ Below(r3, RandomNum)
IsSelected2(is_selected, is_selected_1, r3) == is_selected_1 /\ Below(r3, RandomNum)

\* x[is_selected_1] = mask_token_id, then x[is_selected_2] = randint(...)
CorruptRandomFirst(tm, tok, sel1, sel2, rnd) ==
    IF sel1 THEN tm.mask_token_id ELSE IF sel2 THEN rnd ELSE tok
Corrupt(tm, tok, sel1, sel2, rnd) ==
    IF sel2 THEN rnd ELSE IF sel1 THEN tm.mask_token_id ELSE tok

\* labels = x.clone() ... labels[~is_selected] = -100
LabelAfterCorruption(orig, corrupted, is_selected) == IF is_selected THEN corrupted ELSE IgnoreIndex
Label(orig, corrupted, is_selected) == IF is_selected THEN orig ELSE IgnoreIndex

\* torch.randint(num_special_tokens, vocab_size): low inclusive, high exclusive
RandomTokens(tm) == tm.num_special_tokens..(tm.vocab_size - 1)

\* TextMasking.forward(x, pad_mask).  draws[i][j] holds the three uniform
\* draws r1, r2, r3 made for position (i, j) and the token rnd that randint
\* yields for it; x is overwritten in place, so the field x of the result
\* is the caller's tensor after the call.
TextMaskingForward(tm, x, pad_mask, draws) ==
    LET is_special == [i \in Rows(x) |-> [j \in Cols(x) |->
                          IsSpecial(tm, x[i][j], pad_mask[i][j])]]
        is_input == [i \in Rows(x) |-> [j \in Cols(x) |-> ~is_special[i][j]]]
        is_selected == [i \in Rows(x) |-> [j \in Cols(x) |->
                          IsSelected(tm, draws[i][j].r1, is_input[i][j])]]
        is_selected_1 == [i \in Rows(x) |-> [j \in Cols(x) |->
                          IsSelected1(is_selected[i][j], draws[i][j].r2)]]
        is_selected_2 == [i \in Rows(x) |-> [j \in Cols(x) |->
                          IsSelected2(is_selected[i][j], is_selected_1[i][j],
                                      draws[i][j].r3)]]
        x_out == [i \in Rows(x) |-> [j \in Cols(x) |->
                          Corrupt(tm, x[i][j], is_selected_1[i][j],
                                  is_selected_2[i][j], draws[i][j].rnd)]]
        labels == [i \in Rows(x) |-> [j \in Cols(x) |->
                          Label(x[i][j], x_out[i][j], is_selected[i][j])]]
    IN [x |-> x_out, labels |-> labels, is_selected |-> is_selected,
        is_selected_1 |-> is_selected_1, is_selected_2 |-> is_selected_2]

(* ------------------------ compound layers ----------------------------- *)
\* A value flowing through the network: its shape and the index of the
\* layer application that produced it (0: a broadcast parameter).
Value(shape, id) == [shape |-> shape, id |-> id]

\* nn.Dropout / attention dropout of a freshly constructed module (training
\* mode): active exactly when the dropout rate is positive.
DropoutActive(dropout) == dropout > 0
NoiseSet(dropout) == IF DropoutActive(dropout) THEN 0..MaxNoise ELSE {0}

\* One call layer(x_q, x_kv, pad_mask) of a cross_attention_layer (followed,
\* in the encoder, by a self_attention_block).  Residual.forward returns
\* dropout(module(...)) + args[0], so the result has the shape of x_q.
ApplyLayerKvShape(layer, x_q, x_kv, pad_mask, noise, n) ==
    [layer |-> layer, q |-> x_q, kv |-> x_kv, pad |-> pad_mask, noise |-> noise,
     out |-> Value(<<x_q.shape[1]>> \o Tail(x_kv.shape), n)]
ApplyLayer(layer, x_q, x_kv, pad_mask, noise, n) ==
    [layer |-> layer, q |-> x_q, kv |-> x_kv, pad |-> pad_mask, noise |-> noise,
     out |-> Value(x_q.shape, n)]

\* repeat(param, '... -> b ...', b=b): a new tensor, the parameter is only read
Repeat(param, b) == Value(<<b>> \o param.shape, 0)

\* The input adapter (perceiver.adapter.InputAdapter): maps a raw batch of
\* leading dimension B and length M to a tensor (B, M, num_input_channels).
InputAdapter(adapter, x) ==
    [shape |-> ShapeOf(x) \o <<adapter.num_input_channels>>, src |-> x]

\* The output adapter (perceiver.adapter.OutputAdapter): maps the decoder
\* output (B, K, C_output) to the task-specific output (B, K, num_classes).
OutputAdapter(adapter, v) ==
    Value(<<v.shape[1], v.shape[2], adapter.num_classes>>, v.id)

(* ------------------------ PerceiverEncoder ---------------------------- *)
\* create_perceiver_layer(): a new compound layer with its own parameters;
\* created counts the layers made so far and names the new one.
CreatePerceiverLayer(created) == created + 1

PerceiverEncoderInitOneLayer(input_adapter, latent_shape, num_layers, dropout) ==
    [input_adapter |-> input_adapter, num_layers |-> num_layers,
     layer_1 |-> CreatePerceiverLayer(0),
     layer_n |-> IF num_layers > 1 THEN CreatePerceiverLayer(0) ELSE NoLayer,
     created |-> 1,
     latent |-> [shape |-> latent_shape, version |-> 0], dropout |-> dropout]
PerceiverEncoderInit(input_adapter, latent_shape, num_layers, dropout) ==
    LET layer_1 == CreatePerceiverLayer(0)
        layer_n == IF num_layers > 1 THEN CreatePerceiverLayer(layer_1) ELSE NoLayer
    IN [input_adapter |-> input_adapter, num_layers |-> num_layers,
        layer_1 |-> layer_1, layer_n |-> layer_n,
        created |-> IF num_layers > 1 THEN layer_n ELSE layer_1,
        latent |-> [shape |-> latent_shape, version |-> 0], dropout |-> dropout]

\* for i in range(self.num_layers - 1): x_latent = self.layer_n(x_latent, x, pad_mask)
RECURSIVE EncoderLoopFromLatent(_, _, _, _, _, _)
EncoderLoopFromLatent(e, trace, x, pad_mask, noise, i) ==
    IF i >= e.num_layers - 1 THEN trace
    ELSE EncoderLoopFromLatent(e,
             Append(trace, ApplyLayer(e.layer_n, trace[1].q, x, pad_mask,
                                      noise[Len(trace) + 1], Len(trace) + 1)),
             x, pad_mask, noise, i + 1)
RECURSIVE EncoderLoop(_, _, _, _, _, _)
EncoderLoop(e, trace, x, pad_mask, noise, i) ==
    IF i >= e.num_layers - 1 THEN trace
    ELSE EncoderLoop(e,
             Append(trace, ApplyLayer(e.layer_n, trace[Len(trace)].out, x, pad_mask,
                                      noise[Len(trace) + 1], Len(trace) + 1)),
             x, pad_mask, noise, i + 1)

PerceiverEncoderForwardInPlace(e, x, pad_mask, noise) ==
    LET b == Len(x)
        xa == InputAdapter(e.input_adapter, x)
        x_latent == Repeat(e.latent, b)
        first == ApplyLayer(e.layer_1, x_latent, xa, pad_mask, noise[1], 1)
        trace == EncoderLoop(e, <<first>>, xa, pad_mask, noise, 0)
    IN [trace |-> trace, out |-> trace[Len(trace)].out, adapted |-> xa,
        latent |-> [e.latent EXCEPT !.version = 1 - @]]

\* PerceiverEncoder.forward(x, pad_mask): the trace of layer applications, the
\* returned latent and the latent parameter as the call leaves it.
PerceiverEncoderForward(e, x, pad_mask, noise) ==
    LET b == Len(x)
        xa == InputAdapter(e.input_adapter, x)
        x_latent == Repeat(e.latent, b)
        first == ApplyLayer(e.layer_1, x_latent, xa, pad_mask, noise[1], 1)
        trace == EncoderLoop(e, <<first>>, xa, pad_mask, noise, 0)
    IN [trace |-> trace, out |-> trace[Len(trace)].out, adapted |-> xa,
        latent |-> e.latent]

(* ------------------------ PerceiverDecoder ---------------------------- *)
PerceiverDecoderInit(output_adapter, latent_shape, dropout, layer) ==
    [output_adapter |-> output_adapter, latent_shape |-> latent_shape,
     cross_attention |-> layer,
     output |-> [shape |-> output_adapter.output_shape, version |-> 0],
     dropout |-> dropout]

\* if tuple(d) != self.latent_shape: raise ValueError(...)
ShapeMismatchChannelsOnly(d, latent_shape) ==
    Len(d) # Len(latent_shape) \/ d[Len(d)] # latent_shape[Len(latent_shape)]
ShapeMismatch(d, latent_shape) == d # latent_shape

\* f'Latent shape {tuple(d)} different from required shape {self.latent_shape}'
ErrorMessage(d, latent_shape) ==
    [text |-> "Latent shape _ different from required shape _",
     observed |-> d, required |-> latent_shape]
NoError == [text |-> "", observed |-> <<>>, required |-> <<>>]

\* PerceiverDecoder.forward(x): steps lists what the call did, in order.
PerceiverDecoderForward(dc, x, noise) ==
    LET b == Head(x.shape)
        d == Tail(x.shape)
    IN IF ShapeMismatch(d, dc.latent_shape)
       THEN [raised |-> TRUE, error |-> ErrorMessage(d, dc.latent_shape),
             steps |-> <<"check", "raise">>, trace |-> <<>>,
             out |-> Value(<<>>, 0), output |-> dc.output]
       ELSE LET output == Repeat(dc.output, b)
                app == ApplyLayer(dc.cross_attention, output, x, <<>>, noise, 1)
            IN [raised |-> FALSE, error |-> NoError,
                steps |-> <<"check", "repeat", "cross_attention", "output_adapter">>,
                trace |-> <<app>>,
                out |-> OutputAdapter(dc.output_adapter, app.out),
                output |-> dc.output]

(* --------------------- PerceiverMLM / PerceiverIO --------------------- *)
\* x_logits = self.decoder(x_latent)[:, :l, :]: Python slicing keeps the
\* first l entries of the second dimension, or all of them if there are fewer.
SliceNone(v, l) == v
Slice(v, l) ==
    Value(<<v.shape[1], IF l < v.shape[2] THEN l ELSE v.shape[2], v.shape[3]>>, v.id)

NoTensor == <<>>
NoValue == Value(<<>>, 0)
NoDecoderCall ==
    [raised |-> FALSE, error |-> NoError, steps |-> <<>>, trace |-> <<>>,
     out |-> NoValue, output |-> [shape |-> <<>>, version |-> 0]]
NoMasking(x) ==
    [x |-> x, labels |-> NoTensor, is_selected |-> NoTensor,
     is_selected_1 |-> NoTensor, is_selected_2 |-> NoTensor]

\* if masking: x_masked, x_labels = self.masking(x_input, pad_mask)
\* else:       x_masked = x_input; x_labels = None
\* The masked tensor is in both branches the caller's tensor itself.
MaskOrPassOnClone(tm, x_input, pad_mask, masking, draws) ==
    IF masking
    THEN [m |-> TextMaskingForward(tm, x_input, pad_mask, draws),
          labels_none |-> FALSE, aliased |-> FALSE, x_input |-> x_input]
    ELSE [m |-> NoMasking(x_input), labels_none |-> TRUE, aliased |-> TRUE,
          x_input |-> x_input]
MaskOrPass(tm, x_input, pad_mask, masking, draws) ==
    IF masking
    THEN LET m == TextMaskingForward(tm, x_input, pad_mask, draws)
         IN [m |-> m, labels_none |-> FALSE, aliased |-> TRUE, x_input |-> m.x]
    ELSE [m |-> NoMasking(x_input), labels_none |-> TRUE, aliased |-> TRUE,
          x_input |-> x_input]

\* The record of one call: what it was given, what it computed and returned.
Call(op, masking, x_before, pad_mask, mp, e, d, logits, l) ==
    [op |-> op, masking |-> masking, x_before |-> x_before,
     pad |-> pad_mask, x_masked |-> mp.m.x, aliased |-> mp.aliased,
     labels |-> mp.m.labels, labels_none |-> mp.labels_none,
     is_selected |-> mp.m.is_selected, is_selected_1 |-> mp.m.is_selected_1,
     is_selected_2 |-> mp.m.is_selected_2,
     enc_trace |-> e.trace, adapted |-> e.adapted, latent_out |-> e.out,
     dec |-> d, logits |-> logits, l |-> l, twice |-> FALSE, same_out |-> FALSE]

NoEncoderCall ==
    [trace |-> <<>>, out |-> NoValue, adapted |-> [shape |-> <<>>, src |-> NoTensor],
     latent |-> [shape |-> <<>>, version |-> 0]]

\* PerceiverMLM.forward(x_input, pad_mask, masking)
PerceiverMLMForward(e, dc, tm, x_input, pad_mask, masking, draws, noise) ==
    LET l == ShapeOf(x_input)[2]
        mp == MaskOrPass(tm, x_input, pad_mask, masking, draws)
        x_latent == PerceiverEncoderForward(e, mp.m.x, pad_mask, noise)
        d == PerceiverDecoderForward(dc, x_latent.out, noise[e.num_layers + 1])
        x_logits == IF d.raised THEN NoValue ELSE Slice(d.out, l)
    IN [call |-> Call("mlm", masking, x_input, pad_mask, mp, x_latent, d,
                      x_logits, l),
        x_input |-> mp.x_input, latent |-> x_latent.latent, output |-> d.output]

\* PerceiverIO(encoder, decoder): the encoder, then the decoder on its result.
PerceiverIOForward(e, dc, x, pad_mask, noise) ==
    LET x_latent == PerceiverEncoderForward(e, x, pad_mask, noise)
        d == PerceiverDecoderForward(dc, x_latent.out, noise[e.num_layers + 1])
    IN [call |-> Call("io", FALSE, x, pad_mask,
                      [m |-> NoMasking(x), labels_none |-> TRUE, aliased |-> TRUE],
                      x_latent, d, d.out, ShapeOf(x)[2]),
        x_input |-> x, latent |-> x_latent.latent, output |-> d.output]

(* ------------------------------ state --------------------------------- *)
VARIABLES
    enc,        \* the PerceiverEncoder
    dec,        \* the PerceiverDecoder
    tm,         \* the TextMasking module
    x_input,    \* the caller's token tensor (B, l)
    pad_mask,   \* the caller's padding mask (B, l)
    ret,        \* the record of the most recent call
    sweep       \* tally of masking outcomes over the grid of draws

vars == <<enc, dec, tm, x_input, pad_mask, ret, sweep>>

LatentShapes == (1..MaxLatent) \X (1..MaxLatent)
DropoutRates == 0..MaxDropout
InitTokens == {UnkTokenId, NumSpecialTokens}

\* The draws made for one position: each uniform draw just below its
\* threshold (taken) or at it (not taken); the random token matters only
\* where all three are taken.
DrawCases(t) ==
    {[r1 |-> a, r2 |-> b, r3 |-> c, rnd |-> r] :
        a \in {t.mask_p - 1, t.mask_p}, b \in {ReplaceNum - 1, ReplaceNum},
        c \in {RandomNum - 1, RandomNum},
        r \in {t.num_special_tokens}}
    \cup {[r1 |-> t.mask_p - 1, r2 |-> ReplaceNum - 1, r3 |-> RandomNum - 1, rnd |-> r] :
        r \in RandomTokens(t)}
NoDraws(x) == [i \in Rows(x) |-> [j \in Cols(x) |->
                 [r1 |-> 0, r2 |-> 0, r3 |-> 0, rnd |-> 0]]]

NoCall ==
    Call("init", FALSE, NoTensor, NoTensor,
         [m |-> NoMasking(NoTensor), labels_none |-> TRUE, aliased |-> TRUE],
         NoEncoderCall, NoDecoderCall, NoValue, 0)
NoSweep == [k |-> 0, selected |-> 0, masked |-> 0, random |-> 0, unchanged |-> 0]

Construct(ls_enc, L, p, ls_dec, K) ==
    /\ enc = PerceiverEncoderInit([num_input_channels |-> InputChannels], ls_enc, L, p)
    /\ dec = PerceiverDecoderInit([output_shape |-> <<K, OutputChannels>>,
                                   num_classes |-> VocabSize],
                                  ls_dec, p, enc.created + 1)
    /\ tm = TextMaskingInit(VocabSize, UnkTokenId, MaskTokenId, NumSpecialTokens, MaskPNum)

\* One model (the deepest encoder, matching latent shapes, no dropout) on
\* every token tensor and padding mask.
Init ==
    /\ Construct(<<MaxLatent, MaxLatent>>, MaxLayers, 0, <<MaxLatent, MaxLatent>>, MaxK)
    /\ \E s \in TokenShapes :
          /\ x_input \in TensorsOver(s, InitTokens)
          /\ pad_mask \in TensorsOver(s, BOOLEAN)
    /\ ret = NoCall
    /\ sweep = NoSweep

\* Every model on token tensors of every shape (all tokens [UNK], no padding).
InitNet ==
    /\ \E ls_enc \in LatentShapes, L \in 1..MaxLayers, p \in DropoutRates,
          ls_dec \in LatentShapes, K \in 1..MaxK :
          Construct(ls_enc, L, p, ls_dec, K)
    /\ \E s \in TokenShapes :
          /\ x_input \in TensorsOver(s, {UnkTokenId})
          /\ pad_mask \in TensorsOver(s, {FALSE})
    /\ ret = NoCall
    /\ sweep = NoSweep

NoiseVectors ==
    {[i \in 1..(enc.num_layers + 1) |-> n] : n \in NoiseSet(enc.dropout)}

\* masking(x_input, pad_mask), called directly
MaskingCall ==
    \E draws \in TensorsOver(ShapeOf(x_input), DrawCases(tm)) :
        \E mp \in {MaskOrPass(tm, x_input, pad_mask, TRUE, draws)} :
           /\ ret' = Call("masking", TRUE, x_input, pad_mask, mp,
                          NoEncoderCall, NoDecoderCall, NoValue, ShapeOf(x_input)[2])
           /\ x_input' = mp.x_input
           /\ UNCHANGED <<enc, dec, tm, pad_mask, sweep>>

\* encoder(x_input, pad_mask), called directly
EncoderCall ==
    \E noise \in NoiseVectors :
        \E e \in {PerceiverEncoderForward(enc, x_input, pad_mask, noise)} :
           /\ ret' = Call("encoder", FALSE, x_input, pad_mask,
                          [m |-> NoMasking(x_input), labels_none |-> TRUE, aliased |-> TRUE],
                          e, NoDecoderCall, NoValue, ShapeOf(x_input)[2])
           /\ enc' = [enc EXCEPT !.latent = e.latent]
           /\ UNCHANGED <<dec, tm, x_input, pad_mask, sweep>>

\* decoder(x), called directly on a latent tensor of any shape (b, ...)
DecoderInputShapes ==
    {<<1>> \o s : s \in LatentShapes} \cup {<<1, n>> : n \in 1..MaxLatent}
DecoderCall ==
    \E shape \in DecoderInputShapes, noise \in NoiseSet(dec.dropout) :
        \E d \in {PerceiverDecoderForward(dec, Value(shape, 0), noise)} :
           /\ ret' = Call("decoder", FALSE, NoTensor, NoTensor,
                          [m |-> NoMasking(NoTensor), labels_none |-> TRUE, aliased |-> TRUE],
                          [NoEncoderCall EXCEPT !.out = Value(shape, 0)], d,
                          d.out, 0)
           /\ dec' = [dec EXCEPT !.output = d.output]
           /\ UNCHANGED <<enc, tm, x_input, pad_mask, sweep>>

\* mlm(x_input, pad_mask, masking)
MLMCall ==
    \E masking \in BOOLEAN, noise \in NoiseVectors :
      \E draws \in IF masking THEN TensorsOver(ShapeOf(x_input), DrawCases(tm))
                              ELSE {NoDraws(x_input)} :
        \E r \in {PerceiverMLMForward(enc, dec, tm, x_input, pad_mask,
                                      masking, draws, noise)} :
           /\ ret' = r.call
           /\ x_input' = r.x_input
           /\ enc' = [enc EXCEPT !.latent = r.latent]
           /\ dec' = [dec EXCEPT !.output = r.output]
           /\ UNCHANGED <<tm, pad_mask, sweep>>

\* io(x_input, pad_mask); twice and same_out compare the call with the one
\* before it: the same operation on the same input, and the same output.
IOCall ==
    \E noise \in NoiseVectors :
        \E r \in {PerceiverIOForward(enc, dec, x_input, pad_mask, noise)},
           twice \in {ret.op = "io" /\ ret.x_before = x_input /\ ret.pad = pad_mask} :
           /\ ret' = [r.call EXCEPT !.twice = twice,
                         !.same_out = twice /\ r.call.enc_trace = ret.enc_trace
                                            /\ r.call.dec = ret.dec
                                            /\ r.call.logits = ret.logits]
           /\ x_input' = r.x_input
           /\ enc' = [enc EXCEPT !.latent = r.latent]
           /\ dec' = [dec EXCEPT !.output = r.output]
           /\ UNCHANGED <<tm, pad_mask, sweep>>

Next == MaskingCall \/ EncoderCall \/ DecoderCall \/ MLMCall \/ IOCall

Spec == Init /\ [][Next]_vars
SpecNet == InitNet /\ [][Next]_vars

(* --------------------- masking over the grid of draws ------------------ *)
\* The three draws of one position are independent and uniform, so every
\* point (r1, r2, r3) of the grid MaskPDen x ReplaceDen x RandomDen is
\* equally likely.  The sweep calls the masking on a one-token tensor once
\* per grid point and tallies what the call did to the token.
GridSize == MaskPDen * ReplaceDen * RandomDen
GridPoint(k, rnd) ==
    [r1 |-> k \div (ReplaceDen * RandomDen), r2 |-> (k \div RandomDen) % ReplaceDen,
     r3 |-> k % RandomDen, rnd |-> rnd]

InitShares ==
    /\ Construct(<<MaxLatent, MaxLatent>>, MaxLayers, 0, <<MaxLatent, MaxLatent>>, MaxK)
    /\ x_input \in TensorsOver(<<1, 1>>, (0..(VocabSize - 1)) \ {UnkTokenId})
    /\ pad_mask \in TensorsOver(<<1, 1>>, {FALSE})
    /\ ret = NoCall
    /\ sweep = NoSweep

Bit(b) == IF b THEN 1 ELSE 0

SweepStep ==
    /\ sweep.k < GridSize
    /\ \E rnd \in RandomTokens(tm) :
       \E mp \in {MaskOrPass(tm, x_input, pad_mask, TRUE, <<<<GridPoint(sweep.k, rnd)>>>>)} :
          /\ ret' = Call("masking", TRUE, x_input, pad_mask, mp,
                         NoEncoderCall, NoDecoderCall, NoValue, 1)
          /\ x_input' = mp.x_input
          /\ sweep' = [k |-> sweep.k + 1,
                       selected |-> sweep.selected + Bit(mp.m.is_selected[1][1]),
                       random |-> sweep.random + Bit(mp.m.is_selected_2[1][1]),
                       masked |-> sweep.masked + Bit(mp.m.is_selected_1[1][1]
                                                      /\ ~mp.m.is_selected_2[1][1]),
                       unchanged |-> sweep.unchanged + Bit(mp.m.is_selected[1][1]
                                                      /\ ~mp.m.is_selected_1[1][1]
                                                      /\ ~mp.m.is_selected_2[1][1])]
    /\ UNCHANGED <<enc, dec, tm, pad_mask>>

SpecShares == InitShares /\ [][SweepStep]_vars

(* ------------------------------ claims -------------------------------- *)
\* The most recent call ran TextMasking.forward.
MaskingDone == ret.op = "masking" \/ (ret.op = "mlm" /\ ret.masking)

\* C1: after TextMasking.forward the label of a position is the ignore
\* sentinel exactly when the position was not selected, and at every selected
\* position the label is the token the position held before the call,
\* whether the token was overwritten or left unchanged.
C1_LabelsAreOriginalTokens ==
    MaskingDone =>
        \A p \in Positions(ret.x_before) :
            /\ (ret.labels[p[1]][p[2]] = IgnoreIndex) <=> ~ret.is_selected[p[1]][p[2]]
            /\ ret.is_selected[p[1]][p[2]] =>
                   ret.labels[p[1]][p[2]] = ret.x_before[p[1]][p[2]]

\* C1 witness: one call with a selected position that was overwritten and a
\* selected position that was left unchanged.
C1_Witness ==
    /\ MaskingDone
    /\ \E p, q \in Positions(ret.x_before) :
          /\ ret.is_selected[p[1]][p[2]]
          /\ ret.x_masked[p[1]][p[2]] # ret.x_before[p[1]][p[2]]
          /\ ret.is_selected[q[1]][q[2]]
          /\ ~ret.is_selected_1[q[1]][q[2]]
          /\ ret.x_masked[q[1]][q[2]] = ret.x_before[q[1]][q[2]]

\* C2: a position holding unk_token_id, or marked in pad_mask, is never
\* selected: its token is returned as given and its label is the sentinel.
C2_SpecialNeverSelected ==
    MaskingDone =>
        \A p \in Positions(ret.x_before) :
            (ret.x_before[p[1]][p[2]] = tm.unk_token_id \/ ret.pad[p[1]][p[2]]) =>
                /\ ~ret.is_selected[p[1]][p[2]]
                /\ ret.x_masked[p[1]][p[2]] = ret.x_before[p[1]][p[2]]
                /\ ret.labels[p[1]][p[2]] = IgnoreIndex

\* C2 witness: a call on a padding position holding an ordinary token and an
\* [UNK] position that is not padding.
C2_Witness ==
    /\ MaskingDone
    /\ \E p, q \in Positions(ret.x_before) :
          /\ ret.pad[p[1]][p[2]]
          /\ ret.x_before[p[1]][p[2]] >= tm.num_special_tokens
          /\ ~ret.pad[q[1]][q[2]]
          /\ ret.x_before[q[1]][q[2]] = tm.unk_token_id

\* The most recent call ran PerceiverEncoder.forward / PerceiverDecoder.forward.
EncoderRan == ret.op \in {"encoder", "mlm", "io"}
DecoderRan == ret.op \in {"decoder", "mlm", "io"}
LayersUsed == {ret.enc_trace[i].layer : i \in 1..Len(ret.enc_trace)}

\* C3: an encoder built with num_layers = 1 owns one compound layer, layer_1;
\* built with num_layers > 1 it owns two, layer_1 and a separately created
\* layer_n; forward applies layer_n at iteration 2 and at the last iteration,
\* and never uses a layer other than these two.
C3_TwoCompoundLayers ==
    /\ enc.layer_1 # NoLayer
    /\ enc.num_layers = 1 => (enc.layer_n = NoLayer /\ enc.created = 1)
    /\ enc.num_layers > 1 =>
          (enc.layer_n # NoLayer /\ enc.layer_n # enc.layer_1 /\ enc.created = 2)
    /\ Len(ret.enc_trace) >= 2 =>
          /\ ret.enc_trace[2].layer = enc.layer_n
          /\ ret.enc_trace[Len(ret.enc_trace)].layer = enc.layer_n
    /\ LayersUsed \subseteq {enc.layer_1, enc.layer_n} \ {NoLayer}

\* C3 witness: a forward pass of an encoder with three layers.
C3_Witness ==
    /\ EncoderRan /\ enc.num_layers = 3 /\ Len(ret.enc_trace) = 3
    /\ Cardinality(LayersUsed) = 2

\* C4: forward applies layer_1 once and then layer_n num_layers - 1 times,
\* one after the other; each application's query is the output of the one
\* before it (the first: the broadcast latent), and every application gets
\* the adapted input of the call as key/value and the call's padding mask.
C4_SequentialRefinement ==
    EncoderRan =>
        /\ Len(ret.enc_trace) = enc.num_layers
        /\ ret.enc_trace[1].layer = enc.layer_1
        /\ ret.enc_trace[1].q = Repeat(enc.latent, Len(ret.x_masked))
        /\ \A i \in 2..Len(ret.enc_trace) :
              /\ ret.enc_trace[i].layer = enc.layer_n
              /\ ret.enc_trace[i].q = ret.enc_trace[i - 1].out
        /\ \A i \in 1..Len(ret.enc_trace) :
              /\ ret.enc_trace[i].out.id = i
              /\ ret.enc_trace[i].kv = ret.adapted
              /\ ret.enc_trace[i].kv.src = ret.x_masked
              /\ ret.enc_trace[i].pad = ret.pad
        /\ ret.latent_out = ret.enc_trace[Len(ret.enc_trace)].out

\* C4 witness: a forward pass with three applications on a batch of two.
C4_Witness ==
    /\ ret.op = "encoder" /\ Len(ret.enc_trace) = 3
    /\ ret.enc_trace[2].q = ret.enc_trace[1].out
    /\ ret.enc_trace[3].q = ret.enc_trace[2].out
    /\ ret.enc_trace[3].kv.src = x_input /\ Len(x_input) = 2

\* C5: the decoder raises the shape-mismatch error exactly when the trailing
\* shape of its input differs from its latent_shape; it raises before the
\* output query is broadcast or attention is applied, the message names the
\* observed and the required shape, and a PerceiverIO whose encoder and
\* decoder have different latent shapes fails with it.
C5_ShapeMismatchError ==
    DecoderRan =>
        /\ ret.dec.raised <=> Tail(ret.latent_out.shape) # dec.latent_shape
        /\ ret.dec.raised =>
              /\ ret.dec.steps = <<"check", "raise">>
              /\ ret.dec.trace = <<>>
              /\ ret.dec.error.observed = Tail(ret.latent_out.shape)
              /\ ret.dec.error.required = dec.latent_shape
        /\ ~ret.dec.raised => ret.dec.error = NoError
        /\ (ret.op = "io" /\ enc.latent.shape # dec.latent_shape) => ret.dec.raised

\* C5 witness: a PerceiverIO call that fails because the two latent shapes
\* differ in the channel count only.
C5_Witness ==
    /\ ret.op = "io" /\ ret.dec.raised
    /\ enc.latent.shape[1] = dec.latent_shape[1]
    /\ enc.latent.shape[2] # dec.latent_shape[2]

Min(a, b) == IF a < b THEN a ELSE b

\* C6 as stated: the logits returned by PerceiverMLM.forward have the
\* sequence length l of the input tokens, whatever the output-query length K.
C6_LogitsLengthIsInputLength ==
    (ret.op = "mlm" /\ ~ret.dec.raised) => ret.logits.shape[2] = ret.l

\* C6 amended: the logits are the first min(l, K) positions of the decoder's
\* output; their sequence length is l whenever K >= l.
C6_LogitsLengthIsMin ==
    (ret.op = "mlm" /\ ~ret.dec.raised) =>
        /\ ret.logits.id = ret.dec.out.id
        /\ ret.logits.shape =
               <<Len(ret.x_before), Min(ret.l, dec.output.shape[1]),
                 dec.output_adapter.num_classes>>
        /\ dec.output.shape[1] >= ret.l => ret.logits.shape[2] = ret.l

\* C6 witness: a call whose decoder output is longer than the input and is
\* truncated to the input length.
C6_Witness ==
    /\ ret.op = "mlm" /\ ~ret.dec.raised
    /\ ret.dec.out.shape[2] > ret.l
    /\ ret.logits.shape[2] = ret.l

\* C7: PerceiverMLM.forward changes the caller's token tensor only when
\* masking is true.  Without masking the labels are None, the encoder gets
\* the caller's tokens and the caller's tensor is as before the call; with
\* masking the masked tokens are the caller's tensor itself, which after the
\* call holds the substitutions and is what the next call starts from.
C7_MaskingWritesCallersTensor ==
    ret.op = "mlm" =>
        /\ ~ret.masking =>
              /\ ret.labels_none
              /\ ret.adapted.src = ret.x_before
              /\ x_input = ret.x_before
        /\ ret.masking =>
              /\ ~ret.labels_none
              /\ ret.aliased
              /\ ret.adapted.src = ret.x_masked
              /\ x_input = ret.x_masked

\* C7 witness: a masking call that started from a tensor an earlier call had
\* already written the mask token into, and that changed the tensor again.
C7_Witness ==
    /\ ret.op = "mlm" /\ ret.masking
    /\ \E p \in Positions(ret.x_before) : ret.x_before[p[1]][p[2]] = tm.mask_token_id
    /\ x_input # ret.x_before
    /\ x_input = ret.x_masked

\* C8 as stated: two PerceiverIO calls in a row on the same input give the
\* same output.
C8_SameInputSameOutput == ret.twice => ret.same_out

\* C8 amended: no call changes the encoder (its latent parameter included),
\* the decoder (its output query included) or the masking module; and two
\* PerceiverIO calls in a row on the same input give the same output when
\* the dropout rate is zero.
C8_NoHiddenStateWithoutDropout ==
    /\ []((ret.twice /\ ~DropoutActive(enc.dropout)) => ret.same_out)
    /\ [][enc' = enc /\ dec' = dec /\ tm' = tm]_vars

\* C8 witness: the second of two successful PerceiverIO calls on the same
\* input, without dropout, returning what the first returned.
C8_Witness ==
    /\ ret.op = "io" /\ ret.twice /\ ret.same_out
    /\ ~DropoutActive(enc.dropout) /\ ~ret.dec.raised
    /\ enc.latent.version = 0 /\ dec.output.version = 0

\* C9: over the whole grid of the second and third draw, of the selected
\* positions exactly 8 in 10 are set to the mask token, 1 in 10 to a random
\* token and 1 in 10 are left unchanged.
C9_SharesOfSelected ==
    sweep.k % (ReplaceDen * RandomDen) = 0 =>
        /\ sweep.selected = ReplaceDen * RandomDen
                              * Min(sweep.k \div (ReplaceDen * RandomDen), MaskPNum)
        /\ 10 * sweep.masked = 8 * sweep.selected
        /\ 10 * sweep.random = 1 * sweep.selected
        /\ 10 * sweep.unchanged = 1 * sweep.selected
        /\ sweep.masked + sweep.random + sweep.unchanged = sweep.selected

\* C9 witness: the whole grid swept, with selected positions of each outcome.
C9_Witness ==
    /\ sweep.k = GridSize
    /\ sweep.selected = MaskPNum * ReplaceDen * RandomDen
    /\ sweep.masked > 0 /\ sweep.random > 0 /\ sweep.unchanged > 0

\* C10: the latent returned by PerceiverEncoder.forward has the shape
\* (B, N, C_latent): B the leading dimension of the input, (N, C_latent) the
\* shape of the latent parameter, whatever the input length and num_layers.
C10_EncoderOutputShape ==
    EncoderRan =>
        ret.latent_out.shape = <<Len(ret.x_before)>> \o enc.latent.shape

\* C10 witness: a batch of two, a latent with N # C_latent, more than one layer.
C10_Witness ==
    /\ ret.op = "encoder" /\ Len(ret.x_before) = 2
    /\ enc.latent.shape = <<1, 2>> /\ enc.num_layers > 1
    /\ ret.latent_out.shape = <<2, 1, 2>>

\* The ids the tokenizer reserves for special tokens: the low end of the id
\* space, below num_special_tokens; [UNK] and [MASK] are among them.
ReservedIds == (0..(tm.num_special_tokens - 1)) \cup {tm.unk_token_id, tm.mask_token_id}

\* C11: after TextMasking.forward the random-token subgroup is a subset of
\* the replace-group and the replace-group a subset of the selected set, and
\* the group of a position determines its returned token: outside the
\* replace-group (selected or not) the input token, in the replace-group
\* outside the random-token subgroup mask_token_id, in the random-token
\* subgroup an id in [num_special_tokens, vocab_size) that is not a reserved
\* special id, the mask token included.
C11_TokenByGroup ==
    MaskingDone =>
        \A p \in Positions(ret.x_before) :
            LET sel == ret.is_selected[p[1]][p[2]]
                sel1 == ret.is_selected_1[p[1]][p[2]]
                sel2 == ret.is_selected_2[p[1]][p[2]]
                out == ret.x_masked[p[1]][p[2]]
            IN /\ sel2 => sel1
               /\ sel1 => sel
               /\ ~sel1 => out = ret.x_before[p[1]][p[2]]
               /\ (sel1 /\ ~sel2) => out = tm.mask_token_id
               /\ sel2 => /\ out >= tm.num_special_tokens
                          /\ out < tm.vocab_size
                          /\ out \notin ReservedIds

\* C11 witness: one call with a position in the random-token subgroup that
\* holds a random token instead of the mask token, and a position of the
\* replace-group outside the subgroup that holds the mask token.
C11_Witness ==
    /\ MaskingDone
    /\ \E p, q \in Positions(ret.x_before) :
          /\ ret.is_selected_2[p[1]][p[2]]
          /\ ret.x_masked[p[1]][p[2]] \in RandomTokens(tm)
          /\ ret.x_masked[p[1]][p[2]] # tm.mask_token_id
          /\ ret.is_selected_1[q[1]][q[2]]
          /\ ~ret.is_selected_2[q[1]][q[2]]
          /\ ret.x_masked[q[1]][q[2]] = tm.mask_token_id
          /\ ret.x_before[q[1]][q[2]] # tm.mask_token_id

=============================================================================
